---- MODULE Spec2Model ----
(***************************************************************************)
(* Model of the rule repository of the rule builder (the zustand store     *)
(* useRulesStore) and of its construction-time validation, validateRule.   *)
(*                                                                         *)
(* Strings are sequences of one-character strings, so that trim() and the  *)
(* syntax check of new RegExp() are computed and not assumed.  Numbers are *)
(* records [nan, v]: the JavaScript number type holds NaN, and the store   *)
(* compares numbers with the host's comparison semantics.                  *)
(***************************************************************************)
EXTENDS Integers, Sequences, FiniteSets, TLC

VARIABLES
    rules,      \* RulesState.rules: the stored sequence of rules
    lastCall,   \* the latest call on the store: operation, arguments, outcome
    roundTrip,  \* a caller that exports, clears and imports back: its phase,
                \* the rules it got from exportRules and the sequence then stored
    storage,    \* the item 'rules-storage' of the key-value store, as parsed
                \* back from its JSON text
    data,       \* Home: the state 'data', the rows of the three datasets
    validation, \* Home: the state 'validation', the displayed findings
    effectDue,  \* Home: a dependency of the validation effect has changed
                \* since the effect last ran
    pageEvent,  \* Home: the latest handler that ran
    files,      \* Home: the state 'files', the file shown for each dataset
    filtered,   \* Home: the state 'filtered', the result of the search
    pending,    \* Home: the calls of onDrop that wait for a promise
    editingIndex,      \* RuleBuilder: the state 'editingIndex'
    validationErrors,  \* RuleBuilder: the state 'validationErrors'
    uiEvent            \* RuleBuilder: the latest handler that ran

storeVars == <<rules, lastCall, roundTrip, storage>>

pageVars == <<data, validation, effectDue, pageEvent, files, filtered, pending>>

uiVars == <<editingIndex, validationErrors, uiEvent>>

vars == <<rules, lastCall, roundTrip, storage, data, validation, effectDue,
          pageEvent, files, filtered, pending, editingIndex, validationErrors,
          uiEvent>>

---------------------------------------------------------------------------
(* Bounds of the model.                                                    *)

MaxRules == 3      \* longest stored sequence explored
MaxImport == 2     \* longest list handed to importRules by a caller
MaxTasks == 3      \* longest task list of a coRun rule given to validateRule
MaxPhases == 2     \* longest allowedPhases list given to validateRule

---------------------------------------------------------------------------
(* Host values: numbers and strings.                                       *)

NaN == [nan |-> TRUE, v |-> 0]
Num(n) == [nan |-> FALSE, v |-> n]

\* !x for a number x: NaN and 0 are falsy.
NumFalsy(x) == x.nan \/ x.v = 0

\* x < n for a number x and an integer literal n: false when x is NaN.
NumLess(x, n) == ~x.nan /\ x.v < n

\* x >= n in the mathematical sense: NaN is not a number >= n.
NumAtLeast(x, n) == ~x.nan /\ x.v >= n

IsSpace(c) == c = " "

RECURSIVE TrimStart(_)
TrimStart(s) ==
    IF s = <<>> THEN <<>>
    ELSE IF IsSpace(Head(s)) THEN TrimStart(Tail(s)) ELSE s

RECURSIVE TrimEnd(_)
TrimEnd(s) ==
    IF s = <<>> THEN <<>>
    ELSE IF IsSpace(s[Len(s)]) THEN TrimEnd(SubSeq(s, 1, Len(s) - 1)) ELSE s

\* String.prototype.trim
Trim(s) == TrimEnd(TrimStart(s))

\* !s for a string s: only the empty string is falsy.
StrFalsy(s) == s = <<>>

\* new RegExp(s) on the alphabet of the model: it throws a SyntaxError
\* exactly when the group parentheses of s do not balance.
RECURSIVE ParenDepth(_, _)
ParenDepth(s, depth) ==
    IF depth < 0 THEN -1
    ELSE IF s = <<>> THEN depth
    ELSE IF Head(s) = "(" THEN ParenDepth(Tail(s), depth + 1)
    ELSE IF Head(s) = ")" THEN ParenDepth(Tail(s), depth - 1)
    ELSE ParenDepth(Tail(s), depth)

RegExpCompiles(s) == ParenDepth(s, 0) = 0

---------------------------------------------------------------------------
(* validateRule: the construction invariants of the six variants.          *)

RuleTypes ==
    {"coRun", "slotRestriction", "loadLimit", "phaseWindow", "patternMatch",
     "precedenceOverride"}

\* errors.push(message) guarded by a condition
PushIf(cond, message) == IF cond THEN <<message>> ELSE <<>>

\* array.some(predicate) is written \E i \in DOMAIN array : predicate

validateRuleErrors(rule) ==
    CASE rule.type = "coRun" ->
           PushIf(Len(rule.tasks) < 2, "Co-run rule must have at least 2 tasks")
        \o PushIf(\E i \in DOMAIN rule.tasks : StrFalsy(Trim(rule.tasks[i])),
                  "All tasks must have valid names")
      [] rule.type = "slotRestriction" ->
           PushIf(StrFalsy(rule.group) \/ StrFalsy(Trim(rule.group)),
                  "Slot restriction rule must have a group")
        \o PushIf(NumFalsy(rule.minCommonSlots) \/ NumLess(rule.minCommonSlots, 1),
                  "Minimum common slots must be at least 1")
      [] rule.type = "loadLimit" ->
           PushIf(StrFalsy(rule.group) \/ StrFalsy(Trim(rule.group)),
                  "Load limit rule must have a group")
        \o PushIf(NumFalsy(rule.maxSlotsPerPhase) \/ NumLess(rule.maxSlotsPerPhase, 1),
                  "Maximum slots per phase must be at least 1")
      [] rule.type = "phaseWindow" ->
           PushIf(StrFalsy(rule.task) \/ StrFalsy(Trim(rule.task)),
                  "Phase window rule must have a task")
        \o PushIf(Len(rule.allowedPhases) = 0,
                  "Phase window rule must have at least one allowed phase")
        \o PushIf(\E i \in DOMAIN rule.allowedPhases : NumLess(rule.allowedPhases[i], 1),
                  "All phases must be positive numbers")
      [] rule.type = "patternMatch" ->
           PushIf(StrFalsy(rule.regex) \/ StrFalsy(Trim(rule.regex)),
                  "Pattern match rule must have a regex pattern")
        \o PushIf(StrFalsy(rule.template) \/ StrFalsy(Trim(rule.template)),
                  "Pattern match rule must have a template")
        \o PushIf(~RegExpCompiles(rule.regex), "Invalid regex pattern")
      [] rule.type = "precedenceOverride" ->
           PushIf(Len(rule.global) = 0,
                  "Precedence override rule must have global rules")
        \o PushIf(Len(rule.specific) = 0,
                  "Precedence override rule must have specific rules")
        \o PushIf(NumFalsy(rule.priority) \/ NumLess(rule.priority, 1),
                  "Priority must be at least 1")
      [] OTHER -> <<"Unknown rule type">>

validateRule(rule) ==
    LET errors == validateRuleErrors(rule)
    IN  [isValid |-> Len(errors) = 0, errors |-> errors]

---------------------------------------------------------------------------
(* Values of the model: strings, numbers and rules handed to the store.    *)

sEmpty == <<>>
sBlank == <<" ">>
sT1 == <<"T", "1">>
sT2 == <<"T", "2">>
sPadded == <<" ", "T", "1">>
sUnclosed == <<"(", "T">>
sGroup == <<"(", "T", ")">>

CoRun(tasks) == [type |-> "coRun", tasks |-> tasks]
SlotRestriction(group, n) ==
    [type |-> "slotRestriction", group |-> group, minCommonSlots |-> n]
LoadLimit(group, n) ==
    [type |-> "loadLimit", group |-> group, maxSlotsPerPhase |-> n]
PhaseWindow(task, phases) ==
    [type |-> "phaseWindow", task |-> task, allowedPhases |-> phases]
PatternMatch(regex, template) ==
    [type |-> "patternMatch", regex |-> regex, template |-> template,
     params |-> <<>>]
PrecedenceOverride(global, specific, priority) ==
    [type |-> "precedenceOverride", global |-> global, specific |-> specific,
     priority |-> priority]
UnknownRule == [type |-> "bogus"]

\* Rules a caller hands to addRule.
RuleInputs ==
    { CoRun(<<sT1, sT2>>),
      CoRun(<<sT1>>),
      SlotRestriction(sBlank, Num(0)),
      LoadLimit(sPadded, Num(2)),
      PhaseWindow(sT1, <<Num(1)>>),
      PhaseWindow(sEmpty, <<NaN>>),
      PatternMatch(sUnclosed, sT1),
      PrecedenceOverride(<<sT1>>, <<sT2>>, Num(1)),
      UnknownRule }

\* Rules a caller hands to updateRule.
UpdateInputs ==
    { LoadLimit(sPadded, Num(2)),
      PhaseWindow(sT1, <<Num(1)>>),
      CoRun(<<sT1>>),
      PatternMatch(sUnclosed, sT1) }

\* Indexes a caller hands to updateRule and deleteRule: one below the
\* sequence, and those inside or beyond it.
IndexInputs == -1 .. MaxRules - 1

\* Rules of the lists a caller hands to importRules.
ImportChoices ==
    { CoRun(<<sT1, sT2>>),
      LoadLimit(sPadded, Num(2)),
      PatternMatch(sUnclosed, sT1) }

SeqsUpTo(S, n) == UNION { [1 .. k -> S] : k \in 0 .. n }

ImportInputs == SeqsUpTo(ImportChoices, MaxImport)

---------------------------------------------------------------------------
(* Outcome of a call on the store.                                         *)

NoRule == [type |-> "-"]
NoError == [name |-> "", errors |-> <<>>, count |-> 0]
NoResult == [rules |-> <<>>, totalRules |-> 0, ruleTypes |-> <<>>]
NoValidation == [isValid |-> TRUE, errors |-> <<>>]

\* new Error(`Invalid rule: ${validation.errors.join(', ')}`)
InvalidRuleError(errors) ==
    [name |-> "Invalid rule", errors |-> errors, count |-> 0]

\* new Error(`Invalid rules found: ${invalidRules.length} rules failed validation`)
InvalidRulesError(n) ==
    [name |-> "Invalid rules found", errors |-> <<>>, count |-> n]

Call(op, rule, index, list, error, result) ==
    [op |-> op, rule |-> rule, index |-> index, list |-> list,
     threw |-> error # NoError, error |-> error, result |-> result,
     validation |-> NoValidation]

NoRoundTrip == [phase |-> "none", rules |-> <<>>, original |-> <<>>]

---------------------------------------------------------------------------
(* The store.                                                              *)

\* JSON.stringify of a number: NaN is written as null.
JNull == [null |-> TRUE]
JSONNumber(x) == IF x.nan THEN JNull ELSE x

\* A rule as it reads back from the JSON text JSON.stringify makes of it.
JSONRule(rule) ==
    CASE rule.type = "slotRestriction" ->
           [rule EXCEPT !.minCommonSlots = JSONNumber(@)]
      [] rule.type = "loadLimit" ->
           [rule EXCEPT !.maxSlotsPerPhase = JSONNumber(@)]
      [] rule.type = "phaseWindow" ->
           [rule EXCEPT !.allowedPhases =
                [i \in DOMAIN @ |-> JSONNumber(@[i])]]
      [] rule.type = "precedenceOverride" ->
           [rule EXCEPT !.priority = JSONNumber(@)]
      [] OTHER -> rule

\* partialize: (state) => ({ rules: state.rules }), written as JSON
PersistedItem(rs) ==
    [present |-> TRUE, rules |-> [i \in DOMAIN rs |-> JSONRule(rs[i])]]

NoItem == [present |-> FALSE, rules |-> <<>>]

\* set() of the store under the persist middleware: the new state is stored
\* and written to the item.
set(newRules) ==
    /\ rules' = newRules
    /\ storage' = PersistedItem(newRules)

StoreInit ==
    /\ rules = <<>>
    /\ lastCall = Call("create", NoRule, <<>>, <<>>, NoError, NoResult)
    /\ roundTrip = NoRoundTrip
    /\ storage = NoItem

\* addRule without its validation gate.
addRuleUnchecked(rule) ==
    /\ roundTrip' = NoRoundTrip
    /\ Len(rules) < MaxRules
    /\ set(Append(rules, rule))
    /\ lastCall' = Call("addRule", rule, <<>>, <<>>, NoError, NoResult)

\* addRule putting the new rule first: [rule, ...state.rules].
addRulePrepend(rule) ==
    LET checked == validateRule(rule)
    IN  /\ roundTrip' = NoRoundTrip
        /\ IF ~checked.isValid
           THEN /\ lastCall' = Call("addRule", rule, <<>>, <<>>,
                                    InvalidRuleError(checked.errors), NoResult)
                /\ UNCHANGED <<rules, storage>>
           ELSE /\ Len(rules) < MaxRules
                /\ set(<<rule>> \o rules)
                /\ lastCall' = Call("addRule", rule, <<>>, <<>>, NoError, NoResult)

addRule(rule) ==
    LET checked == validateRule(rule)
    IN  /\ roundTrip' = NoRoundTrip
        /\ IF ~checked.isValid
           THEN /\ lastCall' = Call("addRule", rule, <<>>, <<>>,
                                    InvalidRuleError(checked.errors), NoResult)
                /\ UNCHANGED <<rules, storage>>
           ELSE /\ Len(rules) < MaxRules
                /\ set(Append(rules, rule))
                /\ lastCall' = Call("addRule", rule, <<>>, <<>>, NoError, NoResult)

\* map() comparing the index with a position counted from 1.
MapReplaceOneBased(rs, index, rule) ==
    [i \in DOMAIN rs |-> IF i = index THEN rule ELSE rs[i]]

\* state.rules.map((r, i) => i === index ? rule : r), indexes from 0
MapReplace(rs, index, rule) ==
    [i \in DOMAIN rs |-> IF i - 1 = index THEN rule ELSE rs[i]]

\* updateRule writing the rule before it looks at the validation.
updateRuleCommitFirst(index, rule) ==
    LET checked == validateRule(rule)
    IN  /\ roundTrip' = NoRoundTrip
        /\ set(MapReplace(rules, index, rule))
        /\ lastCall' = Call("updateRule", rule, <<index>>, <<>>,
                            IF checked.isValid THEN NoError
                            ELSE InvalidRuleError(checked.errors), NoResult)

updateRule(index, rule) ==
    LET checked == validateRule(rule)
    IN  /\ roundTrip' = NoRoundTrip
        /\ IF ~checked.isValid
           THEN /\ lastCall' = Call("updateRule", rule, <<index>>, <<>>,
                                    InvalidRuleError(checked.errors), NoResult)
                /\ UNCHANGED <<rules, storage>>
           ELSE /\ set(MapReplace(rules, index, rule))
                /\ lastCall' = Call("updateRule", rule, <<index>>, <<>>,
                                    NoError, NoResult)

\* filter() comparing the index with a position counted from 1.
RECURSIVE FilterNotIndexOneBased(_, _, _)
FilterNotIndexOneBased(rs, index, i) ==
    IF rs = <<>> THEN <<>>
    ELSE (IF i + 1 # index THEN <<Head(rs)>> ELSE <<>>)
         \o FilterNotIndexOneBased(Tail(rs), index, i + 1)

\* state.rules.filter((_, i) => i !== index), indexes from 0
RECURSIVE FilterNotIndex(_, _, _)
FilterNotIndex(rs, index, i) ==
    IF rs = <<>> THEN <<>>
    ELSE (IF i # index THEN <<Head(rs)>> ELSE <<>>)
         \o FilterNotIndex(Tail(rs), index, i + 1)

deleteRule(index) ==
    /\ set(FilterNotIndex(rules, index, 0))
    /\ lastCall' = Call("deleteRule", NoRule, <<index>>, <<>>, NoError, NoResult)
    /\ roundTrip' = NoRoundTrip

clearRules ==
    /\ set(<<>>)
    /\ lastCall' = Call("clearRules", NoRule, <<>>, <<>>, NoError, NoResult)
    /\ roundTrip' = IF roundTrip.phase = "exported"
                    THEN [roundTrip EXCEPT !.phase = "cleared"]
                    ELSE NoRoundTrip

\* rules.filter(rule => !get().validateRule(rule).isValid)
InvalidRules(list) == SelectSeq(list, LAMBDA rule : ~validateRule(rule).isValid)

\* importRules keeping the valid rules of a list it rejects.
importRulesPartial(list) ==
    LET invalidRules == InvalidRules(list)
    IN  /\ set(SelectSeq(list, LAMBDA rule : validateRule(rule).isValid))
        /\ lastCall' = Call("importRules", NoRule, <<>>, list,
                            IF Len(invalidRules) > 0
                            THEN InvalidRulesError(Len(invalidRules))
                            ELSE NoError, NoResult)

\* importRules adding the rules one by one at the front.
importRulesReversed(list) ==
    LET invalidRules == InvalidRules(list)
    IN  IF Len(invalidRules) > 0
        THEN /\ lastCall' = Call("importRules", NoRule, <<>>, list,
                                 InvalidRulesError(Len(invalidRules)), NoResult)
             /\ UNCHANGED <<rules, storage>>
        ELSE /\ set([i \in DOMAIN list |-> list[Len(list) + 1 - i]])
             /\ lastCall' = Call("importRules", NoRule, <<>>, list, NoError, NoResult)

\* importRules appending the list to the stored rules while there is room.
importRulesAppend(list) ==
    LET invalidRules == InvalidRules(list)
    IN  IF Len(invalidRules) > 0
        THEN /\ lastCall' = Call("importRules", NoRule, <<>>, list,
                                 InvalidRulesError(Len(invalidRules)), NoResult)
             /\ UNCHANGED <<rules, storage>>
        ELSE /\ set(IF Len(rules) + Len(list) <= MaxRules THEN rules \o list ELSE list)
             /\ lastCall' = Call("importRules", NoRule, <<>>, list, NoError, NoResult)

importRules(list) ==
    LET invalidRules == InvalidRules(list)
    IN  IF Len(invalidRules) > 0
        THEN /\ lastCall' = Call("importRules", NoRule, <<>>, list,
                                 InvalidRulesError(Len(invalidRules)), NoResult)
             /\ UNCHANGED <<rules, storage>>
        ELSE /\ set(list)
             /\ lastCall' = Call("importRules", NoRule, <<>>, list, NoError, NoResult)

\* [...new Set(rules.map(rule => rule.type))]: the distinct type tags in the
\* order of their first occurrence
RECURSIVE DistinctTypes(_, _)
DistinctTypes(rs, seen) ==
    IF rs = <<>> THEN <<>>
    ELSE IF Head(rs).type \in seen THEN DistinctTypes(Tail(rs), seen)
    ELSE <<Head(rs).type>> \o DistinctTypes(Tail(rs), seen \cup {Head(rs).type})

\* exportRules listing the type tag of every rule, repeats included.
exportResultNoSet(rs) ==
    [rules |-> rs, totalRules |-> Len(rs),
     ruleTypes |-> [i \in DOMAIN rs |-> rs[i].type]]

\* The value exportRules returns; metadata.generatedAt, a clock reading, is
\* left out.
exportResult(rs) ==
    [rules |-> rs, totalRules |-> Len(rs), ruleTypes |-> DistinctTypes(rs, {})]

exportRules ==
    /\ lastCall' = Call("exportRules", NoRule, <<>>, <<>>, NoError, exportResult(rules))
    /\ roundTrip' = [phase |-> "exported", rules |-> exportResult(rules).rules,
                     original |-> rules]
    /\ UNCHANGED <<rules, storage>>

\* A caller imports a list of its own.
Import(list) ==
    /\ importRules(list)
    /\ roundTrip' = NoRoundTrip

\* The caller of the round trip imports the rules it exported into the
\* repository it has just cleared.
ImportExported ==
    /\ roundTrip.phase = "cleared"
    /\ importRules(roundTrip.rules)
    /\ roundTrip' = [roundTrip EXCEPT !.phase = "reimported"]

Next ==
    \/ \E rule \in RuleInputs : addRule(rule) /\ UNCHANGED <<pageVars, uiVars>>
    \/ \E index \in IndexInputs, rule \in UpdateInputs :
           updateRule(index, rule) /\ UNCHANGED <<pageVars, uiVars>>
    \/ \E index \in IndexInputs : deleteRule(index) /\ UNCHANGED <<pageVars, uiVars>>
    \/ clearRules /\ UNCHANGED <<pageVars, uiVars>>
    \/ \E list \in ImportInputs : Import(list) /\ UNCHANGED <<pageVars, uiVars>>
    \/ ImportExported /\ UNCHANGED <<pageVars, uiVars>>
    \/ exportRules /\ UNCHANGED <<pageVars, uiVars>>


---------------------------------------------------------------------------
(* validateRule called on its own, over every rule of a bounded universe.  *)

Numbers == {NaN, Num(-1), Num(0), Num(1), Num(2)}
Names == {sEmpty, sBlank, sT1, sPadded}
Patterns == {sEmpty, sBlank, sT1, sUnclosed, sGroup, <<")", "(">>}
NameLists == SeqsUpTo({sT1}, 1)

AllRules ==
         { CoRun(tasks) : tasks \in SeqsUpTo({sEmpty, sBlank, sT1}, MaxTasks) }
    \cup { SlotRestriction(group, n) : group \in Names, n \in Numbers }
    \cup { LoadLimit(group, n) : group \in Names, n \in Numbers }
    \cup { PhaseWindow(task, phases) :
             task \in Names, phases \in SeqsUpTo(Numbers, MaxPhases) }
    \cup { PatternMatch(regex, template) :
             regex \in Patterns, template \in {sEmpty, sBlank, sT1} }
    \cup { PrecedenceOverride(global, specific, priority) :
             global \in NameLists, specific \in NameLists, priority \in Numbers }
    \cup { UnknownRule, [type |-> "corun", tasks |-> <<sT1, sT2>>] }

validate(rule) ==
    /\ lastCall' = [Call("validateRule", rule, <<>>, <<>>, NoError, NoResult)
                      EXCEPT !.validation = validateRule(rule)]
    /\ UNCHANGED <<rules, roundTrip, storage>>

NextValidate ==
    \E rule \in AllRules : validate(rule) /\ UNCHANGED <<pageVars, uiVars>>


---------------------------------------------------------------------------
(* The construction invariants of the rule variants, as the rule model     *)
(* states them, with the message validateRule has for each.                *)

IsBlank(s) == Trim(s) = <<>>

Violated(holds, message) == IF holds THEN {} ELSE {message}

ViolatedInvariants(rule) ==
    CASE rule.type = "coRun" ->
           Violated(Len(rule.tasks) >= 2, "Co-run rule must have at least 2 tasks")
           \cup Violated(\A i \in DOMAIN rule.tasks : ~IsBlank(rule.tasks[i]),
                         "All tasks must have valid names")
      [] rule.type = "slotRestriction" ->
           Violated(~IsBlank(rule.group), "Slot restriction rule must have a group")
           \cup Violated(NumAtLeast(rule.minCommonSlots, 1),
                         "Minimum common slots must be at least 1")
      [] rule.type = "loadLimit" ->
           Violated(~IsBlank(rule.group), "Load limit rule must have a group")
           \cup Violated(NumAtLeast(rule.maxSlotsPerPhase, 1),
                         "Maximum slots per phase must be at least 1")
      [] rule.type = "phaseWindow" ->
           Violated(~IsBlank(rule.task), "Phase window rule must have a task")
           \cup Violated(Len(rule.allowedPhases) >= 1,
                         "Phase window rule must have at least one allowed phase")
           \cup Violated(\A i \in DOMAIN rule.allowedPhases :
                             NumAtLeast(rule.allowedPhases[i], 1),
                         "All phases must be positive numbers")
      [] rule.type = "patternMatch" ->
           Violated(~IsBlank(rule.regex), "Pattern match rule must have a regex pattern")
           \cup Violated(RegExpCompiles(rule.regex), "Invalid regex pattern")
           \cup Violated(~IsBlank(rule.template), "Pattern match rule must have a template")
      [] rule.type = "precedenceOverride" ->
           Violated(Len(rule.global) >= 1,
                    "Precedence override rule must have global rules")
           \cup Violated(Len(rule.specific) >= 1,
                         "Precedence override rule must have specific rules")
           \cup Violated(NumAtLeast(rule.priority, 1), "Priority must be at least 1")
      [] OTHER -> {"Unknown rule type"}

Range(s) == { s[i] : i \in DOMAIN s }

\* The index of a call, counted from 0, lies inside a sequence of length n.
IndexInside(call, n) == call.index[1] \in 0 .. n - 1

---------------------------------------------------------------------------
(* Claims.                                                                 *)

\* C1: after any sequence of addRule, updateRule, deleteRule, clearRules and
\* importRules calls, failing or not, every rule of the stored sequence
\* passes validateRule.
C1_StoredRulesValid ==
    \A i \in DOMAIN rules : validateRule(rules[i]).isValid

\* C1 witness: a call has just been rejected while the repository holds
\* several rules.
C1_Witness ==
    /\ lastCall.threw
    /\ lastCall.op \in {"addRule", "updateRule", "importRules"}
    /\ Len(rules) >= 2

\* C2: importRules of a list with at least one invalid rule fails with an
\* error naming the number of invalid rules and leaves the stored sequence
\* as it was.
C2_ImportAtomic ==
    [][(/\ lastCall'.op = "importRules"
        /\ \E i \in DOMAIN lastCall'.list : ~validateRule(lastCall'.list[i]).isValid)
       => (/\ rules' = rules
           /\ lastCall'.threw
           /\ lastCall'.error.name = "Invalid rules found"
           /\ lastCall'.error.count =
                Cardinality({i \in DOMAIN lastCall'.list :
                               ~validateRule(lastCall'.list[i]).isValid}))]_vars

\* C2 witness: a list of one valid and one invalid rule was rejected, naming
\* 1 failed rule, on a repository that holds rules.
C2_Witness ==
    /\ lastCall.op = "importRules"
    /\ lastCall.threw
    /\ lastCall.error.count = 1
    /\ Len(lastCall.list) = 2
    /\ validateRule(lastCall.list[1]).isValid
    /\ Len(rules) >= 1

\* C3: addRule or updateRule with a rule that fails validateRule fails and
\* leaves the stored sequence unchanged.
C3_RejectedMutationNoCommit ==
    [][(/\ lastCall'.op \in {"addRule", "updateRule"}
        /\ ~validateRule(lastCall'.rule).isValid)
       => (lastCall'.threw /\ rules' = rules)]_vars

\* C3 witness: updateRule was rejected for an index inside a repository of
\* several rules.
C3_Witness ==
    /\ lastCall.op = "updateRule"
    /\ lastCall.threw
    /\ Len(rules) >= 2
    /\ IndexInside(lastCall, Len(rules))

\* C4: addRule with a rule that passes validateRule appends it: the length
\* grows by 1, the new rule is last and the earlier rules keep their places.
C4_AddAppends ==
    [][(/\ lastCall'.op = "addRule"
        /\ validateRule(lastCall'.rule).isValid)
       => (/\ ~lastCall'.threw
           /\ Len(rules') = Len(rules) + 1
           /\ rules'[Len(rules')] = lastCall'.rule
           /\ \A i \in DOMAIN rules : rules'[i] = rules[i])]_vars

\* C4 witness: a rule was added behind two rules that differ from it.
C4_Witness ==
    /\ lastCall.op = "addRule"
    /\ ~lastCall.threw
    /\ Len(rules) = 3
    /\ rules[3] = lastCall.rule
    /\ rules[1] # rules[3]
    /\ rules[2] # rules[3]

\* C5: the error of a rejected addRule lists every invariant of the variant
\* that the rule violates.
C5_ErrorListsAllViolations ==
    (lastCall.op = "addRule" /\ lastCall.threw)
    => ViolatedInvariants(lastCall.rule) \subseteq Range(lastCall.error.errors)

\* C6: validateRule accepts a rule exactly when the construction invariants
\* of its variant hold.
C6_ValidIffInvariants ==
    lastCall.op = "validateRule"
    => (lastCall.validation.isValid <=> ViolatedInvariants(lastCall.rule) = {})

\* C7: exportRules, clearRules, then importRules of the exported rules
\* succeeds and restores the original sequence.
C7_RoundTrip ==
    roundTrip.phase = "reimported"
    => (/\ ~lastCall.threw
        /\ Len(rules) = Len(roundTrip.original)
        /\ \A i \in DOMAIN rules : rules[i] = roundTrip.original[i])

\* C7 witness: a round trip has brought back a repository of several
\* different rules.
C7_Witness ==
    /\ roundTrip.phase = "reimported"
    /\ lastCall.op = "importRules"
    /\ Len(rules) >= 2
    /\ rules[1] # rules[2]

\* C8: exportRules leaves the stored sequence unchanged and returns it, with
\* totalRules its length and ruleTypes the distinct type tags present.
C8_ExportPureRead ==
    [][lastCall'.op = "exportRules"
       => (/\ rules' = rules
           /\ lastCall'.result.rules = rules
           /\ lastCall'.result.totalRules = Len(rules)
           /\ Range(lastCall'.result.ruleTypes) = {rules[i].type : i \in DOMAIN rules}
           /\ Len(lastCall'.result.ruleTypes)
                = Cardinality({rules[i].type : i \in DOMAIN rules}))]_vars

\* C8 witness: an export of a repository in which a type tag occurs twice.
C8_Witness ==
    /\ lastCall.op = "exportRules"
    /\ Len(rules) = 3
    /\ Len(lastCall.result.ruleTypes) = 2

\* C9: updateRule with a valid rule and an index inside the sequence replaces
\* the element at that index and nothing else.
C9_UpdateReplacesOne ==
    [][(/\ lastCall'.op = "updateRule"
        /\ validateRule(lastCall'.rule).isValid
        /\ IndexInside(lastCall', Len(rules)))
       => (/\ ~lastCall'.threw
           /\ Len(rules') = Len(rules)
           /\ \A i \in DOMAIN rules :
                rules'[i] = IF i = lastCall'.index[1] + 1 THEN lastCall'.rule
                            ELSE rules[i])]_vars

\* C9 witness: the middle rule of three was replaced by a rule that differs
\* from its neighbours.
C9_Witness ==
    /\ lastCall.op = "updateRule"
    /\ ~lastCall.threw
    /\ lastCall.index = <<1>>
    /\ Len(rules) = 3
    /\ rules[2] = lastCall.rule
    /\ rules[1] # rules[2]
    /\ rules[3] # rules[2]

\* C10: updateRule with an index outside the sequence reports a failure.
C10_UpdateOutOfRangeFails ==
    (lastCall.op = "updateRule" /\ ~IndexInside(lastCall, Len(rules)))
    => lastCall.threw

---------------------------------------------------------------------------
(* Host values of the dataset validators.  A row is a function from column *)
(* names to cell values.  A cell value is a string (a sequence of          *)
(* characters) or, for a numeric cell of a spreadsheet, a number: the mark *)
(* "#number" followed by its decimal digits.  A column the row does not    *)
(* have reads as undefined.                                                *)

Undefined == <<"undefined">>

\* row[col]
Get(row, col) == IF col \in DOMAIN row THEN row[col] ELSE Undefined

Digits == <<"0", "1", "2", "3", "4", "5", "6", "7", "8", "9">>

AllDigits(s) == s # <<>> /\ \A i \in DOMAIN s : \E d \in DOMAIN Digits : Digits[d] = s[i]

\* The number a sequence of digits denotes, after the value acc of the
\* digits before it
RECURSIVE DigitsValue(_, _)
DigitsValue(s, acc) ==
    IF s = <<>> THEN acc
    ELSE DigitsValue(Tail(s),
                     10 * acc + (CHOOSE d \in DOMAIN Digits : Digits[d] = Head(s)) - 1)

\* The decimal text of a natural number
RECURSIVE NatText(_)
NatText(n) ==
    IF n < 10 THEN <<Digits[n + 1]>> ELSE NatText(n \div 10) \o <<Digits[(n % 10) + 1]>>

\* The cell value that is the natural number n
NumCell(n) == <<"#number">> \o NatText(n)

\* String(v)
ToStr(v) ==
    IF v = Undefined THEN <<"u", "n", "d", "e", "f", "i", "n", "e", "d">>
    ELSE IF v # <<>> /\ Head(v) = "#number" THEN Tail(v)
    ELSE v

\* Truthiness of a cell value: undefined, the empty string and 0 are falsy.
Truthy(v) == v # Undefined /\ v # <<>> /\ v # NumCell(0)

\* String(v || '')
OrEmpty(v) == IF Truthy(v) THEN ToStr(v) ELSE <<>>

\* Number(v) on the alphabet of the model: undefined is NaN, a blank string
\* is 0, an integer literal with an optional sign is its value, anything
\* else is NaN.
ToNumber(v) ==
    IF v = Undefined THEN NaN
    ELSE LET t == Trim(ToStr(v))
         IN  IF t = <<>> THEN Num(0)
             ELSE IF AllDigits(t) THEN Num(DigitsValue(t, 0))
             ELSE IF Head(t) \in {"-", "+"} /\ AllDigits(Tail(t))
                  THEN Num((IF Head(t) = "-" THEN -1 ELSE 1) * DigitsValue(Tail(t), 0))
             ELSE NaN

\* The number Infinity, used as an upper limit only.
Infinity == [nan |-> FALSE, inf |-> TRUE]

\* x < y and x > y for a finite or NaN x and a limit y
NumBelow(x, y) == ~x.nan /\ x.v < y.v
NumAbove(x, y) == ~x.nan /\ y # Infinity /\ x.v > y.v

\* The decimal text of a limit
NumText(x) ==
    IF x = Infinity THEN <<"I", "n", "f", "i", "n", "i", "t", "y">>
    ELSE IF x.v < 0 THEN <<"-">> \o NatText(-x.v) ELSE NatText(x.v)

\* s.split(/[,;]/)
RECURSIVE SplitFrom(_, _)
SplitFrom(s, current) ==
    IF s = <<>> THEN <<current>>
    ELSE IF Head(s) \in {",", ";"} THEN <<current>> \o SplitFrom(Tail(s), <<>>)
    ELSE SplitFrom(Tail(s), Append(current, Head(s)))

Split(s) == SplitFrom(s, <<>>)

\* array.map(v => v.trim())
TrimAll(tokens) == [i \in DOMAIN tokens |-> Trim(tokens[i])]

\* JSON.parse(s) returns, on the alphabet of the model, exactly for an
\* empty object and for an integer literal without leading zero, each with
\* optional white space around.
JSONParses(s) ==
    LET t == Trim(s)
        d == IF t # <<>> /\ Head(t) = "-" THEN Tail(t) ELSE t
    IN  \/ /\ Len(t) >= 2
           /\ t[1] = "{"
           /\ t[Len(t)] = "}"
           /\ \A i \in 2 .. Len(t) - 1 : IsSpace(t[i])
        \/ AllDigits(d) /\ (Len(d) = 1 \/ Head(d) # "0")

\* [...a, ...b, ...]: the sequences of a sequence, one after the other
RECURSIVE Flatten(_)
Flatten(seqs) == IF seqs = <<>> THEN <<>> ELSE Head(seqs) \o Flatten(Tail(seqs))

ValidationError(row, column, message, detail) ==
    [row |-> row, column |-> column, message |-> message, detail |-> detail,
     type |-> "error"]

---------------------------------------------------------------------------
(* The validators.  rows.forEach((row, i) => ... errors.push(...)) is the  *)
(* sequence of the errors pushed for row 1, then for row 2, and so on.     *)

validateRequiredColumns(rows, required) ==
    IF Len(rows) = 0 THEN <<>>
    ELSE LET missing == SelectSeq(required, LAMBDA col : col \notin DOMAIN rows[1])
         IN  [k \in DOMAIN missing |->
                 ValidationError(0, missing[k], "Missing required column", <<missing[k]>>)]

\* The rows from i on, with the ids seen so far
RECURSIVE DuplicateIDsFrom(_, _, _, _)
DuplicateIDsFrom(rows, idCol, i, seen) ==
    IF i > Len(rows) THEN <<>>
    ELSE LET id == Get(rows[i], idCol)
         IN  IF id \in seen
             THEN <<ValidationError(i, idCol, "Duplicate ID", ToStr(id))>>
                      \o DuplicateIDsFrom(rows, idCol, i + 1, seen)
             ELSE DuplicateIDsFrom(rows, idCol, i + 1, seen \cup {id})

\* validateDuplicateIDs starting with the ids of all rows as seen.
validateDuplicateIDsSeenAll(rows, idCol) ==
    DuplicateIDsFrom(rows, idCol, 1, {Get(rows[i], idCol) : i \in DOMAIN rows})

validateDuplicateIDs(rows, idCol) == DuplicateIDsFrom(rows, idCol, 1, {})

validateNumericList(rows, col) ==
    Flatten([i \in DOMAIN rows |->
        LET vals == TrimAll(Split(ToStr(Get(rows[i], col))))
        IN  IF /\ Truthy(Get(rows[i], col))
               /\ \E k \in DOMAIN vals : vals[k] # <<>> /\ ToNumber(vals[k]).nan
            THEN <<ValidationError(i, col, "Malformed numeric list", <<>>)>>
            ELSE <<>>])

\* The range test with both limits excluded.
OutOfRangeExclusive(val, min, max) ==
    val.nan \/ ~NumAbove(val, min) \/ (max # Infinity /\ ~NumBelow(val, max))

OutOfRange(val, min, max) == val.nan \/ NumBelow(val, min) \/ NumAbove(val, max)

validateRange(rows, col, min, max) ==
    Flatten([i \in DOMAIN rows |->
        IF OutOfRange(ToNumber(Get(rows[i], col)), min, max)
        THEN <<ValidationError(i, col, "Value out of range",
                               NumText(min) \o <<"-">> \o NumText(max))>>
        ELSE <<>>])

\* The text handed to JSON.parse: from the first "{" to the last "}" when
\* the string has both; substring() swaps its arguments when start > end
JSONText(jsonStr) ==
    LET opens == {i \in DOMAIN jsonStr : jsonStr[i] = "{"}
        closes == {i \in DOMAIN jsonStr : jsonStr[i] = "}"}
        start == (CHOOSE i \in opens : \A j \in opens : i <= j) - 1
        end == CHOOSE i \in closes : \A j \in closes : j <= i
    IN  IF opens # {} /\ closes # {}
        THEN IF start <= end THEN SubSeq(jsonStr, start + 1, end)
             ELSE SubSeq(jsonStr, end + 1, start)
        ELSE jsonStr

validateJSON(rows, col) ==
    IF Len(rows) = 0 \/ col \notin DOMAIN rows[1] THEN <<>>
    ELSE Flatten([i \in DOMAIN rows |->
             IF /\ Truthy(Get(rows[i], col))
                /\ ~JSONParses(JSONText(ToStr(Get(rows[i], col))))
             THEN <<ValidationError(i, col, "Malformed JSON", <<>>)>>
             ELSE <<>>])

validateReferences(rows, col, validIDs) ==
    Flatten([i \in DOMAIN rows |->
        LET ids == TrimAll(Split(ToStr(Get(rows[i], col))))
        IN  IF Truthy(Get(rows[i], col))
            THEN Flatten([k \in DOMAIN ids |->
                     IF ids[k] # <<>> /\ ids[k] \notin validIDs
                     THEN <<ValidationError(i, col, "Unknown reference", ids[k])>>
                     ELSE <<>>])
            ELSE <<>>])

validateGroupTags(rows, groupCol) ==
    Flatten([i \in DOMAIN rows |->
        LET group == Get(rows[i], groupCol)
        IN  IF ~Truthy(group) \/ Trim(ToStr(group)) = <<>>
            THEN <<ValidationError(i, groupCol, "Empty or invalid group tag", <<>>)>>
            ELSE <<>>])

validateCircularGroups(rows, idCol, groupCol) == <<>>

\* validateWorkerLoad that also flags a worker with as many slots as its load
validateWorkerLoadAtMost(rows) ==
    Flatten([i \in DOMAIN rows |->
        LET slots == SelectSeq(Split(OrEmpty(Get(rows[i], "AvailableSlots"))),
                               LAMBDA t : t # <<>>)
            maxLoad == ToNumber(Get(rows[i], "MaxLoadPerPhase"))
        IN  IF ~maxLoad.nan /\ Len(slots) <= maxLoad.v
            THEN <<ValidationError(i, "AvailableSlots", "Worker overloaded", <<>>)>>
            ELSE <<>>])

validateWorkerLoad(rows) ==
    Flatten([i \in DOMAIN rows |->
        LET slots == SelectSeq(Split(OrEmpty(Get(rows[i], "AvailableSlots"))),
                               LAMBDA t : t # <<>>)
            maxLoad == ToNumber(Get(rows[i], "MaxLoadPerPhase"))
        IN  IF ~maxLoad.nan /\ Len(slots) < maxLoad.v
            THEN <<ValidationError(i, "AvailableSlots", "Worker overloaded", <<>>)>>
            ELSE <<>>])

validateSkillCoverage(tasks, workers) ==
    LET skillsOf(w) == TrimAll(Split(OrEmpty(Get(workers[w], "Skills"))))
        allSkills == UNION {{skillsOf(w)[k] : k \in DOMAIN skillsOf(w)} :
                               w \in DOMAIN workers}
    IN  Flatten([i \in DOMAIN tasks |->
            LET reqSkills == TrimAll(Split(OrEmpty(Get(tasks[i], "RequiredSkills"))))
            IN  Flatten([k \in DOMAIN reqSkills |->
                    IF reqSkills[k] # <<>> /\ reqSkills[k] \notin allSkills
                    THEN <<ValidationError(i, "RequiredSkills",
                                           "Skill not covered by any worker",
                                           reqSkills[k])>>
                    ELSE <<>>])])

\* errs.reduce((acc, e) => { acc[e.type] = (acc[e.type] || 0) + 1; ... }, {})
RECURSIVE summarizeFrom(_, _)
summarizeFrom(errs, acc) ==
    IF errs = <<>> THEN acc
    ELSE LET type == Head(errs).type
         IN  summarizeFrom(Tail(errs),
                 [t \in DOMAIN acc \cup {type} |->
                     IF t = type
                     THEN (IF t \in DOMAIN acc THEN acc[t] ELSE 0) + 1
                     ELSE acc[t]])

NoSummary == [t \in {} |-> 0]

\* summarize that records the types found, not how often
summarizeTypes(errs) == [t \in {errs[k].type : k \in DOMAIN errs} |-> 1]

summarize(errs) == summarizeFrom(errs, NoSummary)

ValidationResult(errs) == [errors |-> errs, summary |-> summarize(errs)]

Datasets == {"clients", "workers", "tasks"}

\* clients?.length is falsy: the dataset is absent or has no row
NoRows(d, ds) == ds \in d.absent \/ Len(d[ds]) = 0

\* The pipeline of the clients with the references checked before the JSON
clientErrorsReferencesFirst(d) ==
    validateRequiredColumns(d.clients,
        <<"ClientID", "ClientName", "PriorityLevel", "RequestedTaskIDs", "GroupTag",
          "AttributesJSON">>)
        \o validateDuplicateIDs(d.clients, "ClientID")
        \o validateRange(d.clients, "PriorityLevel", Num(1), Num(5))
        \o validateReferences(d.clients, "RequestedTaskIDs",
                              {Get(d.tasks[t], "TaskID") : t \in DOMAIN d.tasks})
        \o validateJSON(d.clients, "AttributesJSON")
        \o validateGroupTags(d.clients, "GroupTag")

clientErrors(d) ==
    validateRequiredColumns(d.clients,
        <<"ClientID", "ClientName", "PriorityLevel", "RequestedTaskIDs", "GroupTag",
          "AttributesJSON">>)
        \o validateDuplicateIDs(d.clients, "ClientID")
        \o validateRange(d.clients, "PriorityLevel", Num(1), Num(5))
        \o validateJSON(d.clients, "AttributesJSON")
        \o validateGroupTags(d.clients, "GroupTag")
        \o validateReferences(d.clients, "RequestedTaskIDs",
                              {Get(d.tasks[t], "TaskID") : t \in DOMAIN d.tasks})

workerErrors(d) ==
    validateRequiredColumns(d.workers,
        <<"WorkerID", "WorkerName", "Skills", "AvailableSlots", "MaxLoadPerPhase",
          "WorkerGroup", "QualificationLevel">>)
        \o validateDuplicateIDs(d.workers, "WorkerID")
        \o validateNumericList(d.workers, "AvailableSlots")
        \o validateWorkerLoad(d.workers)
        \o validateGroupTags(d.workers, "WorkerGroup")

taskErrors(d) ==
    validateRequiredColumns(d.tasks,
        <<"TaskID", "TaskName", "Category", "Duration", "RequiredSkills",
          "PreferredPhases", "MaxConcurrent">>)
        \o validateDuplicateIDs(d.tasks, "TaskID")
        \o validateRange(d.tasks, "Duration", Num(1), Infinity)
        \o validateSkillCoverage(d.tasks, d.workers)

\* validateAll returning early only when all three datasets have no row.
validateAllGateAll(d) ==
    IF NoRows(d, "clients") /\ NoRows(d, "workers") /\ NoRows(d, "tasks")
    THEN [clients |-> [errors |-> <<>>, summary |-> NoSummary],
          workers |-> [errors |-> <<>>, summary |-> NoSummary],
          tasks |-> [errors |-> <<>>, summary |-> NoSummary]]
    ELSE [clients |-> ValidationResult(clientErrors(d)),
          workers |-> ValidationResult(workerErrors(d)),
          tasks |-> ValidationResult(taskErrors(d))]

validateAll(d) ==
    IF NoRows(d, "clients") \/ NoRows(d, "workers") \/ NoRows(d, "tasks")
    THEN [clients |-> [errors |-> <<>>, summary |-> NoSummary],
          workers |-> [errors |-> <<>>, summary |-> NoSummary],
          tasks |-> [errors |-> <<>>, summary |-> NoSummary]]
    ELSE [clients |-> ValidationResult(clientErrors(d)),
          workers |-> ValidationResult(workerErrors(d)),
          tasks |-> ValidationResult(taskErrors(d))]

---------------------------------------------------------------------------
(* The store and its persisted item, with a rule whose phase is NaN.       *)

PersistInputs ==
    { LoadLimit(sPadded, Num(2)),
      PhaseWindow(sT1, <<NaN>>),
      CoRun(<<sT1>>) }

NextPersist ==
    \/ \E rule \in PersistInputs : addRule(rule) /\ UNCHANGED <<pageVars, uiVars>>
    \/ \E index \in IndexInputs, rule \in PersistInputs :
           updateRule(index, rule) /\ UNCHANGED <<pageVars, uiVars>>
    \/ \E index \in IndexInputs : deleteRule(index) /\ UNCHANGED <<pageVars, uiVars>>
    \/ clearRules /\ UNCHANGED <<pageVars, uiVars>>
    \/ \E list \in SeqsUpTo(PersistInputs, MaxImport) :
           Import(list) /\ UNCHANGED <<pageVars, uiVars>>

---------------------------------------------------------------------------
(* Dataset rows the model feeds to the validators and to the page.         *)

MaxRows == 3       \* longest client dataset given to validateAll

\* Rows of clients: A is clean; B asks for the tasks T1 and T9; C repeats
\* the id of A, has priority 6, a blank tag and broken JSON; D has priority
\* 0, an empty tag and the numeric cell 5 as its task; E has no column
\* GroupTag; F has only the columns ClientName and RequestedTaskIDs.
ClientRow ==
    [A |-> [ClientID |-> <<"C", "1">>, ClientName |-> <<"n">>,
            PriorityLevel |-> <<"5">>, RequestedTaskIDs |-> <<"T", "1">>,
            GroupTag |-> <<"G">>, AttributesJSON |-> <<"{", "}">>],
     B |-> [ClientID |-> <<"C", "2">>, ClientName |-> <<"n">>,
            PriorityLevel |-> <<"1">>,
            RequestedTaskIDs |-> <<"T", "1", ",", "T", "9">>,
            GroupTag |-> <<"G">>, AttributesJSON |-> <<"x", "{", "}">>],
     C |-> [ClientID |-> <<"C", "1">>, ClientName |-> <<"n">>,
            PriorityLevel |-> <<"6">>,
            RequestedTaskIDs |-> <<"T", "9", ";", " ", "T", "8">>,
            GroupTag |-> <<" ">>, AttributesJSON |-> <<"{">>],
     D |-> [ClientID |-> <<"C", "2">>, ClientName |-> <<"n">>,
            PriorityLevel |-> <<"0">>, RequestedTaskIDs |-> NumCell(5),
            GroupTag |-> <<>>, AttributesJSON |-> <<>>],
     E |-> [ClientID |-> <<"C", "3">>, ClientName |-> <<"n">>,
            PriorityLevel |-> <<"x">>,
            RequestedTaskIDs |-> <<" ", "T", "1", " ", ",", ",", "T", "2">>,
            AttributesJSON |-> <<"7">>],
     F |-> [ClientName |-> <<"n">>,
            RequestedTaskIDs |-> <<"T", "9", ",", "T", "9">>]]

ClientRows == {ClientRow[r] : r \in DOMAIN ClientRow}

\* Rows of workers: B repeats the id of A, has a slot that is no number,
\* fewer slots than its load and an empty group; C has empty pieces among
\* its two slots; D has no slot and the load 1; E has a load that is no
\* number; F, of a spreadsheet, has numeric cells and no column Skills.
WorkerRow ==
    [A |-> [WorkerID |-> <<"W", "1">>, WorkerName |-> <<"n">>, Skills |-> <<"a">>,
            AvailableSlots |-> <<"1", ",", "2">>, MaxLoadPerPhase |-> <<"2">>,
            WorkerGroup |-> <<"G">>, QualificationLevel |-> <<"1">>],
     B |-> [WorkerID |-> <<"W", "1">>, WorkerName |-> <<"n">>, Skills |-> <<>>,
            AvailableSlots |-> <<"1", ",", "x">>, MaxLoadPerPhase |-> <<"3">>,
            WorkerGroup |-> <<>>, QualificationLevel |-> <<"1">>],
     C |-> [WorkerID |-> <<"W", "3">>, WorkerName |-> <<"n">>, Skills |-> <<"a">>,
            AvailableSlots |-> <<",", "1", ";", ";", "2", ",">>,
            MaxLoadPerPhase |-> <<"2">>, WorkerGroup |-> <<"G">>,
            QualificationLevel |-> <<"1">>],
     D |-> [WorkerID |-> <<"W", "4">>, WorkerName |-> <<"n">>, Skills |-> <<"a">>,
            AvailableSlots |-> <<>>, MaxLoadPerPhase |-> <<"1">>,
            WorkerGroup |-> <<"G">>, QualificationLevel |-> <<"1">>],
     E |-> [WorkerID |-> <<"W", "5">>, WorkerName |-> <<"n">>, Skills |-> <<"a">>,
            AvailableSlots |-> <<"1">>, MaxLoadPerPhase |-> <<"x">>,
            WorkerGroup |-> <<"G">>, QualificationLevel |-> <<"1">>],
     F |-> [WorkerID |-> NumCell(6), WorkerName |-> <<"n">>,
            AvailableSlots |-> NumCell(2), MaxLoadPerPhase |-> NumCell(1),
            WorkerGroup |-> <<"G">>, QualificationLevel |-> NumCell(1)]]

MaxWorkers == 2    \* longest worker dataset drawn from all worker rows

MaxPending == 2    \* calls of onDrop that wait for a promise at one time

WorkerLists == {<<>>, <<WorkerRow.A>>, <<WorkerRow.A, WorkerRow.B>>}

\* Rows of tasks: T1; T2 with duration 0 and a skill no worker has; T1
\* again with duration 99; the task 5 of a spreadsheet with numeric cells.
TaskRow ==
    [T1 |-> [TaskID |-> <<"T", "1">>, TaskName |-> <<"n">>, Category |-> <<"n">>,
             Duration |-> <<"1">>, RequiredSkills |-> <<"a">>,
             PreferredPhases |-> <<"1">>, MaxConcurrent |-> <<"1">>],
     T2 |-> [TaskID |-> <<"T", "2">>, TaskName |-> <<"n">>, Category |-> <<"n">>,
             Duration |-> <<"0">>, RequiredSkills |-> <<"a", ",", "b">>,
             PreferredPhases |-> <<"1">>, MaxConcurrent |-> <<"1">>],
     T1again |-> [TaskID |-> <<"T", "1">>, TaskName |-> <<"n">>,
                  Category |-> <<"n">>, Duration |-> <<"9", "9">>,
                  RequiredSkills |-> <<>>, PreferredPhases |-> <<"1">>,
                  MaxConcurrent |-> <<"1">>],
     N5 |-> [TaskID |-> NumCell(5), TaskName |-> <<"n">>, Category |-> <<"n">>,
             Duration |-> NumCell(2), RequiredSkills |-> <<"a">>,
             PreferredPhases |-> NumCell(1), MaxConcurrent |-> NumCell(1)]]

TaskLists ==
    {<<>>, <<TaskRow.T1>>, <<TaskRow.T1, TaskRow.T2>>,
     <<TaskRow.T1, TaskRow.T2, TaskRow.T1again>>, <<TaskRow.T1, TaskRow.N5>>}

\* The object { clients, workers, tasks }; a dataset in 'absent' is undefined
DataOf(clients, workers, tasks, absent) ==
    [clients |-> clients, workers |-> workers, tasks |-> tasks, absent |-> absent]

DataInputs ==
    {DataOf(c, w, t, {}) :
        c \in SeqsUpTo(ClientRows, MaxRows), w \in WorkerLists, t \in TaskLists}
    \cup {DataOf(<<>>, w, t, {"clients"}) : w \in WorkerLists, t \in TaskLists}
    \cup {DataOf(<<ClientRow.C>>, <<>>, t, {"workers"}) : t \in TaskLists}
    \cup {DataOf(<<ClientRow.C>>, w, <<>>, {"tasks"}) : w \in WorkerLists}
    \cup {DataOf(<<ClientRow.A>>, w, <<TaskRow.T1>>, {}) :
              w \in SeqsUpTo({WorkerRow[r] : r \in DOMAIN WorkerRow}, MaxWorkers)}

---------------------------------------------------------------------------
(* The page Home: the datasets, the validation effect and the handlers     *)
(* that change the datasets.                                               *)

\* The object {} in the state 'validation'
EmptyValidation == [empty |-> TRUE]

PageEvent(name, dataset, threw) == [name |-> name, dataset |-> dataset, threw |-> threw]

\* The object {} in the state 'filtered'
NoFilter == [dataset |-> "", rows |-> <<>>]

\* A file the user drops: its name, its extension and the rows its text
\* parses to under the header mapping
File(name, type, rows) == [name |-> name, type |-> type, rows |-> rows]

PageInit ==
    /\ data = DataOf(<<>>, <<>>, <<>>, Datasets)
    /\ validation = EmptyValidation
    /\ effectDue = TRUE
    /\ pageEvent = PageEvent("mount", "", FALSE)
    /\ files = [ds \in Datasets |-> ""]
    /\ filtered = NoFilter
    /\ pending = <<>>

\* setData((prev) => ({ ...prev, [dataset]: rows }))
setData(dataset, rows) ==
    /\ data' = [data EXCEPT ![dataset] = rows, !.absent = @ \ {dataset}]
    /\ effectDue' = TRUE

\* A direct call of validateAll on a dataset triple
callValidateAll ==
    /\ validation' = validateAll(data)
    /\ pageEvent' = PageEvent("validateAll", "", FALSE)
    /\ UNCHANGED <<data, effectDue, files, filtered, pending>>

\* The effect with the dependencies data.clients, data.workers, data.tasks
RunEffect ==
    /\ effectDue
    /\ validation' = IF /\ ~NoRows(data, "clients")
                        /\ ~NoRows(data, "workers")
                        /\ ~NoRows(data, "tasks")
                     THEN validateAll(data)
                     ELSE EmptyValidation
    /\ effectDue' = FALSE
    /\ pageEvent' = PageEvent("useEffect", "", FALSE)
    /\ UNCHANGED <<data, files, filtered, pending>>

SetCell(row, col, value) ==
    [c \in DOMAIN row \cup {col} |-> IF c = col THEN value ELSE row[c]]

\* setFiles((prev) => ({ ...prev, [dataset]: acceptedFiles[0] }))
setFiles(dataset, file) == files' = [files EXCEPT ![dataset] = file.name]

\* onDrop with no other handler between its steps: the file was parsed and
\* its rows were stored
onDrop(dataset, file) ==
    /\ pending = <<>>
    /\ setFiles(dataset, file)
    /\ setData(dataset, file.rows)
    /\ pageEvent' = PageEvent("onDrop", dataset, FALSE)
    /\ UNCHANGED <<validation, filtered, pending>>

\* onDrop with no other handler between its steps: the header mapping
\* failed, the handler returns after the alert
onDropMappingFailed(dataset, file) ==
    /\ pending = <<>>
    /\ file.type = "csv"
    /\ setFiles(dataset, file)
    /\ pageEvent' = PageEvent("onDrop", dataset, TRUE)
    /\ UNCHANGED <<data, validation, effectDue, filtered, pending>>

\* The pending calls without the k-th
Settle(k) == [i \in 1 .. Len(pending) - 1 |-> pending[IF i < k THEN i ELSE i + 1]]

\* onDrop up to its first await: the file is shown, and the call waits for
\* the headers of a .csv file or for the rows of a .xlsx file
onDropStart(dataset, file) ==
    /\ Len(pending) < MaxPending
    /\ setFiles(dataset, file)
    /\ pending' = Append(pending,
                         [dataset |-> dataset, file |-> file,
                          awaits |-> IF file.type = "csv" THEN "extractHeadersFromFile"
                                     ELSE "parseFile"])
    /\ pageEvent' = PageEvent("onDrop", dataset, FALSE)
    /\ UNCHANGED <<data, validation, effectDue, filtered>>

\* The promise of extractHeadersFromFile resolves for the k-th pending call,
\* which goes on to await geminiHeaderMap
extractHeadersFromFile(k) ==
    /\ k \in DOMAIN pending
    /\ pending[k].awaits = "extractHeadersFromFile"
    /\ pending' = [pending EXCEPT ![k].awaits = "geminiHeaderMap"]
    /\ pageEvent' = PageEvent("extractHeadersFromFile", pending[k].dataset, FALSE)
    /\ UNCHANGED <<data, validation, effectDue, files, filtered>>

\* The promise of geminiHeaderMap settles for the k-th pending call: it
\* rejects and the call returns after the alert, or it resolves and the
\* call goes on to await parseFileWithMapping
geminiHeaderMap(k, failed) ==
    /\ k \in DOMAIN pending
    /\ pending[k].awaits = "geminiHeaderMap"
    /\ pending' = IF failed THEN Settle(k)
                  ELSE [pending EXCEPT ![k].awaits = "parseFileWithMapping"]
    /\ pageEvent' = PageEvent("geminiHeaderMap", pending[k].dataset, failed)
    /\ UNCHANGED <<data, validation, effectDue, files, filtered>>

\* The promise of parseFileWithMapping resolves for the k-th pending call,
\* which stores the rows and returns
parseFileWithMapping(k) ==
    /\ k \in DOMAIN pending
    /\ pending[k].awaits = "parseFileWithMapping"
    /\ setData(pending[k].dataset, pending[k].file.rows)
    /\ pending' = Settle(k)
    /\ pageEvent' = PageEvent("parseFileWithMapping", pending[k].dataset, FALSE)
    /\ UNCHANGED <<validation, files, filtered>>

\* The promise of parseFile resolves for the k-th pending call: its then()
\* stores the rows
parseFile(k) ==
    /\ k \in DOMAIN pending
    /\ pending[k].awaits = "parseFile"
    /\ setData(pending[k].dataset, pending[k].file.rows)
    /\ pending' = Settle(k)
    /\ pageEvent' = PageEvent("parseFile", pending[k].dataset, FALSE)
    /\ UNCHANGED <<validation, files, filtered>>

\* { id: i, ...row }: the row the grid shows at position i
GridRow(row, i) ==
    [c \in DOMAIN row \cup {"id"} |-> IF c \in DOMAIN row THEN row[c] ELSE NumCell(i)]

\* rows of the DataGrid: (filtered[ds] ?? data[ds] ?? []).map(...)
GridRows(dataset) ==
    LET shown == IF filtered.dataset = dataset
                 THEN [k \in DOMAIN filtered.rows |-> filtered.rows[k].row]
                 ELSE IF dataset \in data.absent THEN <<>> ELSE data[dataset]
    IN  [k \in DOMAIN shown |-> GridRow(shown[k], k - 1)]

\* { ...row, ...newRow }
MergeEdited(row, newRow) ==
    [c \in DOMAIN row \cup DOMAIN newRow |->
        IF c \in DOMAIN newRow THEN newRow[c] ELSE row[c]]

\* handleProcessRowUpdate(dataset)(newRow): the grid hands back the row it
\* shows at the position pos, with the edited cell
handleProcessRowUpdate(dataset, pos, col, value) ==
    /\ pos \in 0 .. Len(GridRows(dataset)) - 1
    /\ LET newRow == SetCell(GridRows(dataset)[pos + 1], col, value)
           id == DigitsValue(Tail(newRow.id), 0)
       IN  setData(dataset,
                   IF dataset \in data.absent THEN <<>>
                   ELSE [i \in DOMAIN data[dataset] |->
                            IF i - 1 = id THEN MergeEdited(data[dataset][i], newRow)
                            ELSE data[dataset][i]])
    /\ pageEvent' = [name |-> "handleProcessRowUpdate", dataset |-> dataset,
                     threw |-> FALSE, pos |-> pos, col |-> col, value |-> value]
    /\ UNCHANGED <<validation, files, filtered, pending>>

\* A filter function the search returned: it keeps the rows with the value
\* in the column col
FilterFn(col, value) == [col |-> col, value |-> value]

\* handleSearch on the tab of the dataset: the search text is blank, or the
\* service failed, or it returned filterFn.  A row of 'filtered' is the
\* object of the row of data[ds] at the index 'of'.
handleSearch(dataset, blank, failed, filterFn) ==
    /\ IF blank THEN filtered' = NoFilter
       ELSE IF dataset \in data.absent THEN UNCHANGED filtered
       ELSE IF failed THEN filtered' = NoFilter
       ELSE LET rows == data[dataset]
                kept == SelectSeq([i \in DOMAIN rows |-> [row |-> rows[i], of |-> i]],
                                  LAMBDA r : Get(r.row, filterFn.col) = filterFn.value)
            IN  filtered' = [dataset |-> dataset, rows |-> kept]
    /\ pageEvent' = PageEvent("handleSearch", dataset, ~blank /\ failed)
    /\ UNCHANGED <<data, validation, effectDue, files, pending>>

\* A map function the data modifier returned: it sets the column col to
\* value, on the row it is given (inPlace) or on a copy, and then reads
\* a property of the column 'needs', which throws on a row without it.
MapFn(col, value, inPlace, needs) ==
    [col |-> col, value |-> value, inPlace |-> inPlace, needs |-> needs]

\* The row on which rows.map(mapFn) throws; 0 when it returns
ThrowsAt(mapFn, rows) ==
    IF \E i \in DOMAIN rows : mapFn.needs \notin DOMAIN rows[i]
    THEN CHOOSE i \in DOMAIN rows :
             /\ mapFn.needs \notin DOMAIN rows[i]
             /\ \A j \in 1 .. i - 1 : mapFn.needs \in DOMAIN rows[j]
    ELSE 0

\* The rows of the state after rows.map(mapFn) threw on row k: a function
\* that writes on its argument has changed the rows up to k
RowsAfterThrow(mapFn, rows, k) ==
    [i \in DOMAIN rows |->
        IF mapFn.inPlace /\ i <= k THEN SetCell(rows[i], mapFn.col, mapFn.value)
        ELSE rows[i]]

\* handleNlpModify with the function the data modifier returned
handleNlpModify(dataset, mapFn) ==
    /\ dataset \notin data.absent
    /\ LET rows == data[dataset]
           k == ThrowsAt(mapFn, rows)
       IN  IF k = 0
           THEN /\ setData(dataset,
                           [i \in DOMAIN rows |-> SetCell(rows[i], mapFn.col, mapFn.value)])
                /\ pageEvent' = PageEvent("handleNlpModify", dataset, FALSE)
           ELSE /\ data' = [data EXCEPT ![dataset] = RowsAfterThrow(mapFn, rows, k)]
                /\ pageEvent' = PageEvent("handleNlpModify", dataset, TRUE)
                /\ UNCHANGED effectDue
    /\ UNCHANGED <<validation, files, filtered, pending>>

UploadInputs ==
    [clients |-> {File("c0.csv", "csv", <<>>),
                  File("c1.csv", "csv", <<ClientRow.A, ClientRow.E>>)},
     workers |-> {File("w1.csv", "csv", <<WorkerRow.A>>)},
     tasks |-> {File("t1.csv", "csv", <<TaskRow.T1>>),
                File("t2.xlsx", "xlsx", <<TaskRow.T1, TaskRow.T2>>)}]

EditInputs ==
    {[dataset |-> "clients", col |-> "PriorityLevel", value |-> <<"6">>],
     [dataset |-> "tasks", col |-> "Duration", value |-> <<"0">>]}

\* What handleSearch meets: a blank search text, a failure of the service,
\* or a filter function
SearchInputs ==
    {[dataset |-> "clients", blank |-> TRUE, failed |-> FALSE,
      filterFn |-> FilterFn("", <<>>)],
     [dataset |-> "clients", blank |-> FALSE, failed |-> TRUE,
      filterFn |-> FilterFn("", <<>>)],
     [dataset |-> "clients", blank |-> FALSE, failed |-> FALSE,
      filterFn |-> FilterFn("PriorityLevel", <<"x">>)],
     [dataset |-> "clients", blank |-> FALSE, failed |-> FALSE,
      filterFn |-> FilterFn("GroupTag", <<"G">>)],
     [dataset |-> "tasks", blank |-> FALSE, failed |-> FALSE,
      filterFn |-> FilterFn("Duration", <<"0">>)]}

MapFnInputs ==
    {MapFn("PriorityLevel", <<"0">>, inPlace, needs) :
        inPlace \in BOOLEAN, needs \in {"ClientID", "GroupTag"}}

NextData == callValidateAll /\ UNCHANGED <<storeVars, uiVars>>

NextPage ==
    \/ RunEffect /\ UNCHANGED <<storeVars, uiVars>>
    \/ \E dataset \in Datasets : \E file \in UploadInputs[dataset] :
           onDrop(dataset, file) /\ UNCHANGED <<storeVars, uiVars>>
    \/ \E dataset \in Datasets : \E file \in UploadInputs[dataset] :
           onDropMappingFailed(dataset, file) /\ UNCHANGED <<storeVars, uiVars>>
    \/ \E edit \in EditInputs, id \in 0 .. MaxRows - 1 :
           /\ handleProcessRowUpdate(edit.dataset, id, edit.col, edit.value)
           /\ UNCHANGED <<storeVars, uiVars>>
    \/ \E mapFn \in MapFnInputs :
           handleNlpModify("clients", mapFn) /\ UNCHANGED <<storeVars, uiVars>>

\* The uploads, step by step: calls of onDrop overlap
NextUpload ==
    \/ \E dataset \in Datasets : \E file \in UploadInputs[dataset] :
           onDropStart(dataset, file) /\ UNCHANGED <<storeVars, uiVars>>
    \/ \E k \in 1 .. MaxPending :
           extractHeadersFromFile(k) /\ UNCHANGED <<storeVars, uiVars>>
    \/ \E k \in 1 .. MaxPending, failed \in BOOLEAN :
           geminiHeaderMap(k, failed) /\ UNCHANGED <<storeVars, uiVars>>
    \/ \E k \in 1 .. MaxPending :
           parseFileWithMapping(k) /\ UNCHANGED <<storeVars, uiVars>>
    \/ \E k \in 1 .. MaxPending :
           parseFile(k) /\ UNCHANGED <<storeVars, uiVars>>

\* The data grid under the search: uploads, searches and cell edits
NextGrid ==
    \/ \E dataset \in Datasets : \E file \in UploadInputs[dataset] :
           onDrop(dataset, file) /\ UNCHANGED <<storeVars, uiVars>>
    \/ \E search \in SearchInputs :
           /\ handleSearch(search.dataset, search.blank, search.failed, search.filterFn)
           /\ UNCHANGED <<storeVars, uiVars>>
    \/ \E edit \in EditInputs, pos \in 0 .. MaxRows - 1 :
           /\ handleProcessRowUpdate(edit.dataset, pos, edit.col, edit.value)
           /\ UNCHANGED <<storeVars, uiVars>>

---------------------------------------------------------------------------
(* The component RuleBuilder: the handlers through which the user and the  *)
(* AI components reach the store.  editingIndex is <<>> for null and <<i>>  *)
(* for the index i.                                                        *)

UiEvent(name, rule, index) == [name |-> name, rule |-> rule, index |-> index]

UIInit ==
    /\ editingIndex = <<>>
    /\ validationErrors = <<>>
    /\ uiEvent = UiEvent("mount", NoRule, <<>>)

\* clearForm: setEditingIndex(null), setValidationErrors([])
clearForm ==
    /\ editingIndex' = <<>>
    /\ validationErrors' = <<>>

\* The button Edit of the rule shown at index
handleEditRule(index) ==
    /\ index \in 0 .. Len(rules) - 1
    /\ editingIndex' = <<index>>
    /\ uiEvent' = UiEvent("handleEditRule", rules[index + 1], <<index>>)
    /\ UNCHANGED <<storeVars, validationErrors>>

\* handleDeleteRule that leaves the index of an edit of a later rule alone
handleDeleteRuleKeepIndex(index) ==
    /\ index \in 0 .. Len(rules) - 1
    /\ deleteRule(index)
    /\ IF editingIndex = <<index>>
       THEN clearForm
       ELSE UNCHANGED <<editingIndex, validationErrors>>
    /\ uiEvent' = UiEvent("handleDeleteRule", NoRule, <<index>>)

\* The button Delete of the rule shown at index
handleDeleteRule(index) ==
    /\ index \in 0 .. Len(rules) - 1
    /\ deleteRule(index)
    /\ IF editingIndex = <<index>>
       THEN clearForm
       ELSE IF editingIndex # <<>> /\ editingIndex[1] > index
            THEN /\ editingIndex' = <<editingIndex[1] - 1>>
                 /\ UNCHANGED validationErrors
            ELSE UNCHANGED <<editingIndex, validationErrors>>
    /\ uiEvent' = UiEvent("handleDeleteRule", NoRule, <<index>>)

\* handleSaveRule writing the rule into the sequence itself.
handleSaveRuleDirect(newRule) ==
    /\ Len(rules) < MaxRules
    /\ set(IF editingIndex # <<>> THEN MapReplace(rules, editingIndex[1], newRule)
           ELSE Append(rules, newRule))
    /\ lastCall' = Call("set", newRule, editingIndex, <<>>, NoError, NoResult)
    /\ roundTrip' = NoRoundTrip
    /\ clearForm
    /\ uiEvent' = UiEvent("handleSaveRule", newRule, editingIndex)

\* handleSaveRule, called by the six handlers of the manual form with the
\* rule they built from the fields
handleSaveRule(newRule) ==
    /\ IF editingIndex # <<>>
       THEN updateRule(editingIndex[1], newRule)
       ELSE addRule(newRule)
    /\ IF lastCall'.threw
       THEN /\ validationErrors' = <<lastCall'.error>>
            /\ UNCHANGED editingIndex
       ELSE clearForm
    /\ uiEvent' = UiEvent("handleSaveRule", newRule, editingIndex)

\* handleAIGeneratedRule, the callback onRuleGenerated of the natural
\* language parser and onRuleAccepted of the recommendations
handleAIGeneratedRule(rule) ==
    /\ addRule(rule)
    /\ validationErrors' = IF lastCall'.threw THEN <<lastCall'.error>> ELSE <<>>
    /\ UNCHANGED editingIndex

\* NaturalLanguageParser: the service returned a rule
parseNaturalLanguage(rule) ==
    /\ handleAIGeneratedRule(rule)
    /\ uiEvent' = UiEvent("parseNaturalLanguage", rule, <<>>)

\* RuleRecommendations: the user accepts a recommendation
handleAcceptRecommendation(rule) ==
    /\ handleAIGeneratedRule(rule)
    /\ uiEvent' = UiEvent("handleAcceptRecommendation", rule, <<>>)

\* handleImportRules: the file holds a list of rules
handleImportRules(list) ==
    /\ Import(list)
    /\ uiEvent' = UiEvent("handleImportRules", NoRule, <<>>)
    /\ UNCHANGED <<editingIndex, validationErrors>>

\* handleClearAllRules, confirmed by the user
handleClearAllRules ==
    /\ Len(rules) > 0
    /\ clearRules
    /\ clearForm
    /\ uiEvent' = UiEvent("handleClearAllRules", NoRule, <<>>)

\* Rules the handlers of the manual form hand to handleSaveRule: they check
\* the fields for emptiness and for numbers, not the pattern.
FormRules ==
    { CoRun(<<sT1, sT2>>),
      LoadLimit(sT1, Num(2)),
      PatternMatch(sUnclosed, sT1) }

\* Rules the AI service returns.
AIRules ==
    { CoRun(<<sT1>>),
      SlotRestriction(sGroup, Num(1)),
      UnknownRule }

UIImportInputs ==
    SeqsUpTo({LoadLimit(sT1, Num(2)), PatternMatch(sUnclosed, sT1)}, MaxImport)

NextUI ==
    \/ \E index \in IndexInputs :
           handleEditRule(index) /\ UNCHANGED pageVars
    \/ \E index \in IndexInputs :
           handleDeleteRule(index) /\ UNCHANGED pageVars
    \/ \E rule \in FormRules :
           handleSaveRule(rule) /\ UNCHANGED pageVars
    \/ \E rule \in AIRules :
           parseNaturalLanguage(rule) /\ UNCHANGED pageVars
    \/ \E rule \in AIRules :
           handleAcceptRecommendation(rule) /\ UNCHANGED pageVars
    \/ \E list \in UIImportInputs :
           handleImportRules(list) /\ UNCHANGED pageVars
    \/ handleClearAllRules /\ UNCHANGED pageVars

---------------------------------------------------------------------------
(* The specifications *)

Init == StoreInit /\ PageInit /\ UIInit

\* Any dataset triple of the inputs, handed to validateAll
InitData ==
    /\ StoreInit
    /\ UIInit
    /\ data \in DataInputs
    /\ validation = EmptyValidation
    /\ effectDue = FALSE
    /\ pageEvent = PageEvent("mount", "", FALSE)
    /\ files = [ds \in Datasets |-> ""]
    /\ filtered = NoFilter
    /\ pending = <<>>

Spec == Init /\ [][Next]_vars

SpecValidate == Init /\ [][NextValidate]_vars

SpecPersist == Init /\ [][NextPersist]_vars

SpecData == InitData /\ [][NextData]_vars

SpecPage == Init /\ [][NextPage]_vars

SpecUI == Init /\ [][NextUI]_vars

SpecGrid == Init /\ [][NextGrid]_vars

SpecUpload == Init /\ [][NextUpload]_vars


\* C11: deleteRule with an index inside the sequence removes exactly that
\* element and validates nothing: the length drops by 1 and the other rules
\* keep their values and their order.
C11_DeleteRemovesOne ==
    [][(/\ lastCall'.op = "deleteRule"
        /\ IndexInside(lastCall', Len(rules)))
       => (/\ ~lastCall'.threw
           /\ Len(rules') = Len(rules) - 1
           /\ \A i \in DOMAIN rules' :
                rules'[i] = rules[IF i <= lastCall'.index[1] THEN i ELSE i + 1])]_vars

\* C11 witness: the middle rule of three was deleted and two different rules
\* remain.
C11_Witness ==
    /\ lastCall.op = "deleteRule"
    /\ lastCall.index = <<1>>
    /\ Len(rules) = 2
    /\ rules[1] # rules[2]

MutatingOps == {"addRule", "updateRule", "deleteRule", "clearRules", "importRules"}

\* C12: after every successful addRule, updateRule, deleteRule, clearRules
\* or importRules the persisted rule sequence equals the stored sequence,
\* and a failed operation leaves the persisted sequence unchanged.
C12_PersistedMirrors ==
    [][lastCall'.op \in MutatingOps
       => IF lastCall'.threw
          THEN storage' = storage
          ELSE storage'.present /\ storage'.rules = rules']_vars

---------------------------------------------------------------------------
(* Claims on the validators *)

\* validateAll has returned into 'validation'
Validated == pageEvent.name = "validateAll"

\* The dataset is empty or absent
EmptyOrAbsent(ds) == ds \in data.absent \/ data[ds] = <<>>

\* validateAll has run its validators on three datasets with rows
ValidatedLoaded == Validated /\ \A ds \in Datasets : ~EmptyOrAbsent(ds)

\* The findings with the given message at row i and column col, in order
Findings(errs, i, col, message) ==
    SelectSeq(errs, LAMBDA e : e.row = i /\ e.column = col /\ e.message = message)

\* The findings with the given message, in order
FindingsOf(errs, message) == SelectSeq(errs, LAMBDA e : e.message = message)

\* C13: when at least one of clients, workers, tasks is empty or absent,
\* validateAll returns an empty error list and an empty summary for all
\* three datasets, whatever the other datasets hold.
C13_GateAllOrNothing ==
    (Validated /\ \E ds \in Datasets : EmptyOrAbsent(ds))
        => \A ds \in Datasets :
               /\ validation[ds].errors = <<>>
               /\ validation[ds].summary = NoSummary

\* C13 witness: validateAll has returned for clients and workers full of
\* faults and a task list without rows.
C13_Witness ==
    /\ Validated
    /\ data.clients = <<ClientRow.C, ClientRow.C, ClientRow.F>>
    /\ data.workers = <<WorkerRow.A, WorkerRow.B>>
    /\ data.tasks = <<>>
    /\ data.absent = {}
    /\ validation.clients.errors = <<>>

\* C15: validateDuplicateIDs reports row i (counted from 1) on the ID column
\* exactly when the ID value of row i occurs in an earlier row, so the
\* number of errors is the number of rows minus the number of distinct IDs.
C15_DuplicateIDs ==
    \A use \in {<<data.clients, "ClientID">>, <<data.workers, "WorkerID">>,
                 <<data.tasks, "TaskID">>} :
        LET rows == use[1]
            idCol == use[2]
            errs == validateDuplicateIDs(rows, idCol)
            id(i) == Get(rows[i], idCol)
        IN  /\ \A i \in DOMAIN rows :
                   Len(SelectSeq(errs, LAMBDA e : e.row = i))
                       = IF \E j \in 1 .. i - 1 : id(j) = id(i) THEN 1 ELSE 0
            /\ \A k \in DOMAIN errs :
                   errs[k].column = idCol /\ errs[k].row \in DOMAIN rows
            /\ Len(errs) = Len(rows) - Cardinality({id(i) : i \in DOMAIN rows})

\* C15 witness: validateAll has returned for clients with the ClientIDs C1,
\* C2, C1 and reports one duplicate, at row 3 on ClientID.
C15_Witness ==
    /\ ValidatedLoaded
    /\ data.clients = <<ClientRow.A, ClientRow.B, ClientRow.C>>
    /\ Len(FindingsOf(validation.clients.errors, "Duplicate ID")) = 1
    /\ Len(Findings(validation.clients.errors, 3, "ClientID", "Duplicate ID")) = 1

\* The value is not a number or lies outside lo .. hi; hi = -1 for no
\* upper limit
Outside(value, lo, hi) ==
    LET n == ToNumber(value)
    IN  n.nan \/ n.v < lo \/ (hi # -1 /\ n.v > hi)

\* C16: validateRange flags a row exactly when its value is not a number,
\* is below min or is above max, both limits included: in validateAll a
\* client with PriorityLevel 5 or 1 gets no range error, one with 6 or 0
\* gets exactly one, and a task Duration has no upper limit.
C16_RangeInclusive ==
    ValidatedLoaded =>
        /\ \A i \in DOMAIN data.clients :
               LET value == Get(data.clients[i], "PriorityLevel")
                   n == Len(Findings(validation.clients.errors, i,
                                     "PriorityLevel", "Value out of range"))
               IN  /\ n = IF Outside(value, 1, 5) THEN 1 ELSE 0
                   /\ value \in {<<"5">>, <<"1">>} => n = 0
                   /\ value \in {<<"6">>, <<"0">>} => n = 1
        /\ \A i \in DOMAIN data.tasks :
               LET value == Get(data.tasks[i], "Duration")
                   n == Len(Findings(validation.tasks.errors, i,
                                     "Duration", "Value out of range"))
               IN  /\ n = IF Outside(value, 1, -1) THEN 1 ELSE 0
                   /\ value \in {<<"1">>, <<"9", "9">>} => n = 0

\* C16 witness: validateAll has returned for clients with the priority
\* levels 5, 6 and 0 and tasks with the durations 1, 0 and 99.
C16_Witness ==
    /\ ValidatedLoaded
    /\ data.clients = <<ClientRow.A, ClientRow.C, ClientRow.D>>
    /\ data.tasks = <<TaskRow.T1, TaskRow.T2, TaskRow.T1again>>
    /\ Len(FindingsOf(validation.clients.errors, "Value out of range")) = 2
    /\ Len(FindingsOf(validation.tasks.errors, "Value out of range")) = 1

\* The trimmed non-empty tokens of a list cell
Tokens(value) ==
    IF value = Undefined THEN <<>>
    ELSE SelectSeq(TrimAll(Split(ToStr(value))), LAMBDA t : t # <<>>)

\* The token is the TaskID, as written, of some task row
IsTaskID(token, tasks) ==
    \E t \in DOMAIN tasks :
        "TaskID" \in DOMAIN tasks[t] /\ ToStr(tasks[t]["TaskID"]) = token

\* C17: for every client row validateAll reports one 'Unknown reference' on
\* RequestedTaskIDs for each non-empty token of the row that is not the
\* TaskID of any task row, and none for a token that is an existing TaskID.
C17_References ==
    ValidatedLoaded =>
        \A i \in DOMAIN data.clients :
            LET tokens == Tokens(Get(data.clients[i], "RequestedTaskIDs"))
                found == Findings(validation.clients.errors, i,
                                  "RequestedTaskIDs", "Unknown reference")
            IN  /\ \A k \in DOMAIN found : found[k].detail \in Range(tokens)
                /\ \A t \in Range(tokens) :
                       Len(SelectSeq(found, LAMBDA e : e.detail = t))
                           = IF IsTaskID(t, data.tasks) THEN 0
                             ELSE Len(SelectSeq(tokens, LAMBDA u : u = t))

\* The findings on the column col, in order
FindingsOn(errs, col) == SelectSeq(errs, LAMBDA e : e.column = col)

\* No row of the dataset has the column
ColumnMissing(rows, col) == \A i \in DOMAIN rows : col \notin DOMAIN rows[i]

\* The columns the validators of validateAll read, by dataset
ColumnsRead ==
    [clients |-> {"ClientID", "PriorityLevel", "AttributesJSON", "GroupTag",
                  "RequestedTaskIDs"},
     workers |-> {"WorkerID", "AvailableSlots", "MaxLoadPerPhase", "WorkerGroup"},
     tasks |-> {"TaskID", "Duration", "RequiredSkills"}]

\* C18: when a column a validator reads is missing from the dataset, the
\* findings on that column are none or a single 'Missing required column'
\* at row 0, never one per data row.
C18_MissingColumnDegrades ==
    ValidatedLoaded =>
        \A ds \in Datasets : \A col \in ColumnsRead[ds] :
            ColumnMissing(data[ds], col) =>
                LET found == FindingsOn(validation[ds].errors, col)
                IN  \/ found = <<>>
                    \/ /\ Len(found) = 1
                       /\ found[1].row = 0
                       /\ found[1].message = "Missing required column"

---------------------------------------------------------------------------
(* Claims on the rule builder and on the page *)

\* The handlers through which a rule of the form or of the AI components
\* is handed over
EnteringHandlers ==
    {"handleSaveRule", "parseNaturalLanguage", "handleAcceptRecommendation"}

\* C19: every rule handed over by the manual form (new or edited), by the
\* natural-language parser or by an accepted recommendation goes to addRule
\* or updateRule and is written only when validateRule accepts it; no
\* handler puts a rule into the sequence that validateRule did not accept.
C19_UIRulesValidated ==
    [][/\ uiEvent'.name \in EnteringHandlers =>
            /\ lastCall'.op = (IF uiEvent'.name = "handleSaveRule" /\ editingIndex # <<>>
                               THEN "updateRule" ELSE "addRule")
            /\ lastCall'.rule = uiEvent'.rule
            /\ lastCall'.threw = ~validateRule(uiEvent'.rule).isValid
            /\ lastCall'.threw => rules' = rules
       /\ \A i \in DOMAIN rules' :
            rules'[i] \notin Range(rules) =>
                /\ lastCall'.op \in {"addRule", "updateRule", "importRules"}
                /\ validateRule(rules'[i]).isValid]_vars

\* C19 witness: an accepted recommendation is stored, and the form has just
\* saved an edit of the rule before it through updateRule.
C19_Witness ==
    /\ uiEvent.name = "handleSaveRule"
    /\ uiEvent.index = <<0>>
    /\ lastCall.op = "updateRule"
    /\ ~lastCall.threw
    /\ Len(rules) = 2
    /\ rules[1] = LoadLimit(sT1, Num(2))
    /\ rules[2] = SlotRestriction(sGroup, Num(1))
    /\ editingIndex = <<>>

\* C20: once the effect has run after the latest change of a dataset, the
\* displayed validation is validateAll of the current datasets when all
\* three have rows and is empty otherwise.
C20_NoStaleValidation ==
    ~effectDue =>
        validation = IF \A ds \in Datasets : ~EmptyOrAbsent(ds)
                     THEN validateAll(data)
                     ELSE EmptyValidation

\* The place of a validator in the pipeline of its dataset, by its message
Pipeline ==
    [clients |-> <<"Missing required column", "Duplicate ID", "Value out of range",
                   "Malformed JSON", "Empty or invalid group tag",
                   "Unknown reference">>,
     workers |-> <<"Missing required column", "Duplicate ID",
                   "Malformed numeric list", "Worker overloaded",
                   "Empty or invalid group tag">>,
     tasks |-> <<"Missing required column", "Duplicate ID", "Value out of range",
                 "Skill not covered by any worker">>]

\* What each validator of the clients reports when called by itself
ClientOutputs ==
    [k \in 1 .. 6 |->
        CASE k = 1 -> validateRequiredColumns(data.clients,
                          <<"ClientID", "ClientName", "PriorityLevel",
                            "RequestedTaskIDs", "GroupTag", "AttributesJSON">>)
          [] k = 2 -> validateDuplicateIDs(data.clients, "ClientID")
          [] k = 3 -> validateRange(data.clients, "PriorityLevel", Num(1), Num(5))
          [] k = 4 -> validateJSON(data.clients, "AttributesJSON")
          [] k = 5 -> validateGroupTags(data.clients, "GroupTag")
          [] k = 6 -> validateReferences(data.clients, "RequestedTaskIDs",
                          {Get(data.tasks[t], "TaskID") : t \in DOMAIN data.tasks})]

\* The position of the message in the pipeline of the dataset
Stage(ds, message) == CHOOSE k \in DOMAIN Pipeline[ds] : Pipeline[ds][k] = message

\* C21: the error list of each dataset is the concatenation of the outputs
\* of its validators in pipeline order, each in ascending row order; the
\* findings of one validator neither suppress nor reorder those of another.
C21_PipelineOrder ==
    ValidatedLoaded =>
        /\ \A ds \in Datasets :
               LET errs == validation[ds].errors
               IN  /\ \A k \in DOMAIN errs : errs[k].message \in Range(Pipeline[ds])
                   /\ \A k \in 1 .. Len(errs) - 1 :
                          \/ Stage(ds, errs[k].message) < Stage(ds, errs[k + 1].message)
                          \/ /\ errs[k].message = errs[k + 1].message
                             /\ errs[k].row <= errs[k + 1].row
        /\ \A k \in 1 .. 6 :
               FindingsOf(validation.clients.errors, Pipeline.clients[k])
                   = ClientOutputs[k]
        /\ FindingsOf(validation.workers.errors, "Worker overloaded")
               = validateWorkerLoad(data.workers)
        /\ FindingsOf(validation.tasks.errors, "Value out of range")
               = validateRange(data.tasks, "Duration", Num(1), Infinity)

\* C21 witness: validateAll has returned for clients without the column
\* PriorityLevel in their first row, so that row 0 and row 1 both have a
\* finding on PriorityLevel, and with findings of five validators.
C21_Witness ==
    /\ ValidatedLoaded
    /\ data.clients = <<ClientRow.F, ClientRow.C, ClientRow.F>>
    /\ data.tasks = <<TaskRow.T1>>
    /\ Len(FindingsOn(validation.clients.errors, "PriorityLevel")) = 4
    /\ Cardinality({validation.clients.errors[k].message :
                       k \in DOMAIN validation.clients.errors}) = 5

\* C22: the summary of each dataset maps each finding type to the number of
\* errors of that type: its counts add up to the length of the error list,
\* and it is empty exactly when the error list is empty.
C22_SummaryCounts ==
    Validated =>
        \A ds \in Datasets :
            LET errs == validation[ds].errors
                summary == validation[ds].summary
            IN  /\ DOMAIN summary = {errs[k].type : k \in DOMAIN errs}
                /\ \A t \in DOMAIN summary :
                       summary[t] = Cardinality({k \in DOMAIN errs : errs[k].type = t})
                /\ (summary = NoSummary) <=> (errs = <<>>)
                /\ errs # <<>> => summary["error"] = Len(errs)

\* C22 witness: validateAll has returned with several errors for the
\* clients and with none for the workers.
C22_Witness ==
    /\ ValidatedLoaded
    /\ Len(validation.clients.errors) >= 3
    /\ validation.clients.summary["error"] = Len(validation.clients.errors)
    /\ validation.workers.errors = <<>>
    /\ validation.workers.summary = NoSummary

\* The number of non-empty pieces between the commas and semicolons of a
\* cell: the places where a piece begins
SlotCount(value) ==
    LET text == IF value = Undefined THEN <<>> ELSE ToStr(value)
    IN  Cardinality({i \in DOMAIN text :
                        /\ text[i] \notin {",", ";"}
                        /\ (i = 1 \/ text[i - 1] \in {",", ";"})})

C24_JSONSkip ==
    LET rows == data.clients
        errs == validateJSON(rows, "AttributesJSON")
    IN  \A i \in DOMAIN rows :
            LET value == Get(rows[i], "AttributesJSON")
            IN  (/\ "AttributesJSON" \in DOMAIN rows[i]
                 /\ Truthy(value)
                 /\ ~JSONParses(JSONText(ToStr(value))))
                    => \E k \in DOMAIN errs : errs[k].row = i


\* C25: a successful importRules replaces the whole stored sequence: the
\* sequence then equals the imported list in its order, whatever was stored
\* before, and the import of an empty list leaves no rule.
C25_ImportReplaces ==
    [][(/\ uiEvent'.name = "handleImportRules"
        /\ ~lastCall'.threw)
       => (/\ lastCall'.op = "importRules"
           /\ rules' = lastCall'.list
           /\ lastCall'.list = <<>> => Len(rules') = 0)]_vars

\* C25 witness: the empty list was imported while a rule was being edited,
\* so into a repository that held rules, and no rule is left.
C25_Witness ==
    /\ uiEvent.name = "handleImportRules"
    /\ lastCall.op = "importRules"
    /\ ~lastCall.threw
    /\ lastCall.list = <<>>
    /\ editingIndex # <<>>
    /\ rules = <<>>

\* C26: editingIndex is null or an index of the current rule sequence.
C26_EditingIndexValid ==
    editingIndex # <<>> => editingIndex[1] \in 0 .. Len(rules) - 1

\* editingIndex designates a stored rule
Editing == editingIndex # <<>> /\ editingIndex[1] \in 0 .. Len(rules) - 1

\* C27: while a rule is being edited, handleDeleteRule of another rule
\* leaves editingIndex at the rule it was at, and a save that follows
\* replaces that rule and no other.
C27_DeleteKeepsEdit ==
    [][/\ (/\ uiEvent'.name = "handleDeleteRule"
           /\ Editing
           /\ uiEvent'.index # editingIndex)
          => (/\ Editing'
              /\ rules'[editingIndex'[1] + 1] = rules[editingIndex[1] + 1])
       /\ (/\ uiEvent'.name = "handleSaveRule"
           /\ Editing
           /\ ~lastCall'.threw)
          => (/\ Len(rules') = Len(rules)
              /\ \A i \in DOMAIN rules :
                     rules'[i] = IF i = editingIndex[1] + 1 THEN uiEvent'.rule
                                 ELSE rules[i])]_vars

\* C27 witness: the first rule was deleted while the second of two different
\* rules was being edited; the edit is now at index 0, where that rule is.
C27_Witness ==
    /\ uiEvent.name = "handleDeleteRule"
    /\ uiEvent.index = <<0>>
    /\ editingIndex = <<0>>
    /\ rules = <<SlotRestriction(sGroup, Num(1))>>

\* C28: a save that fails the validation changes no rule, keeps
\* editingIndex and records the message of the error; the form is cleared
\* only when the rule was added or has replaced the rule being edited.
C28_FailedSaveKeepsForm ==
    [][uiEvent'.name = "handleSaveRule" =>
          /\ lastCall'.threw =>
                 /\ rules' = rules
                 /\ editingIndex' = editingIndex
                 /\ validationErrors' = <<lastCall'.error>>
          /\ ~lastCall'.threw =>
                 IF editingIndex = <<>>
                 THEN rules' = Append(rules, uiEvent'.rule)
                 ELSE /\ Editing
                      /\ rules'[editingIndex[1] + 1] = uiEvent'.rule]_vars


\* The rows the search result shows are rows of the dataset as it is now
FilterFresh(ds) ==
    filtered.dataset = ds =>
        \A k \in DOMAIN filtered.rows :
            /\ filtered.rows[k].of \in DOMAIN data[ds]
            /\ data[ds][filtered.rows[k].of] = filtered.rows[k].row

\* The index in data[ds] of the row the grid shows at the position pos
ShownAt(ds, pos) ==
    IF filtered.dataset = ds THEN filtered.rows[pos + 1].of ELSE pos + 1

\* C29: a cell edit in the grid changes the row of the dataset that is
\* shown at the edited position and no other row, also under a search
\* filter: not the row with that position in the unfiltered dataset.
C29_EditHitsShownRow ==
    [][(/\ pageEvent'.name = "handleProcessRowUpdate"
        /\ FilterFresh(pageEvent'.dataset))
       => LET ds == pageEvent'.dataset
              target == ShownAt(ds, pageEvent'.pos)
          IN  /\ Len(data'[ds]) = Len(data[ds])
              /\ \A i \in DOMAIN data[ds] :
                     IF i = target
                     THEN /\ data'[ds][i][pageEvent'.col] = pageEvent'.value
                          /\ \A c \in DOMAIN data[ds][i] \ {pageEvent'.col} :
                                 data'[ds][i][c] = data[ds][i][c]
                     ELSE data'[ds][i] = data[ds][i]]_vars


\* The rows of the file of the dataset with the name shown
RowsOfFile(ds, name) == (CHOOSE file \in UploadInputs[ds] : file.name = name).rows

\* C30: when no upload is pending, the rows of each dataset for which a
\* file is shown are the rows parsed from that file, the one dropped last,
\* however the steps of overlapping uploads interleave and also when a
\* header mapping has failed.
C30_LatestFileLoaded ==
    pending = <<>> =>
        \A ds \in Datasets :
            files[ds] # "" =>
                /\ ds \notin data.absent
                /\ data[ds] = RowsOfFile(ds, files[ds])


====
